---- MODULE Spec2Model ----
(***************************************************************************)
(* create_zone.py: three patch operations on one in-memory byte buffer     *)
(* (a Python bytearray): resize_quad, patch_full_times / patch_incremental *)
(* and patch_texture, and main() which runs them in sequence and persists  *)
(* the buffer.                                                             *)
(*                                                                         *)
(* A buffer is a sequence of bytes 0..255; byte offset off of the bytearray *)
(* is element off+1 of the sequence.  32-bit floats are modelled by their  *)
(* IEEE-754 single-precision encoding; a float value is a record           *)
(* [neg, q] standing for (-1)^neg * q/4, so that 12.5 is [FALSE, 50].      *)
(***************************************************************************)
EXTENDS Integers, Sequences, FiniteSets, TLC

VARIABLES data, orig, prev, log, args, pc, file

vars == <<data, orig, prev, log, args, pc, file>>

(* ------------------------------------------------------------------ *)
(* Program constants                                                  *)
(* ------------------------------------------------------------------ *)
SEQ_ARRAY_META_OFF == 28
TIMING_ARRAY_OFF == 2784
M2_VERTEX_STRIDE == 48
TEXTURE_NAME_OFF == 2704
MAX_TEX_BASE == 20
HOLD_EPOCH == 1000

(* ------------------------------------------------------------------ *)
(* Bounds of the model                                                *)
(* ------------------------------------------------------------------ *)
BufLen == 2900
MaxCalls == 3
Fill == 46

(* ------------------------------------------------------------------ *)
(* Byte-level helpers: bytearray slicing, find, struct pack/unpack    *)
(* ------------------------------------------------------------------ *)
Min(a, b) == IF a < b THEN a ELSE b
Max(a, b) == IF a > b THEN a ELSE b

At(d, off) == d[off + 1]

\* d[a:b] for 0 <= a, 0 <= b (Python clamps both ends to len(d)).
Slice(d, a, b) == SubSeq(d, Min(a, Len(d)) + 1, Min(b, Len(d)))

\* d[a:b] = bts on a bytearray: the (clamped) slice is replaced by bts, so the
\* buffer grows when the slice reaches past its end.
SliceAssign(d, a, b, bts) ==
    LET lo == Min(a, Len(d))
        hi == Max(lo, Min(b, Len(d)))
    IN  SubSeq(d, 1, lo) \o bts \o SubSeq(d, hi + 1, Len(d))

MatchAt(d, pat, i) == \A k \in 1..Len(pat) : d[i + k] = pat[k]

\* d.find(pat, start): lowest offset >= start where pat occurs, else -1.
Find(d, pat, start) ==
    LET hits == {i \in start..(Len(d) - Len(pat)) : MatchAt(d, pat, i)}
    IN  IF hits = {} THEN -1
        ELSE CHOOSE i \in hits : \A j \in hits : i <= j

RECURSIVE Log2(_)
Log2(n) == IF n < 2 THEN 0 ELSE 1 + Log2(n \div 2)

RECURSIVE Pow2(_)
Pow2(k) == IF k = 0 THEN 1 ELSE 2 * Pow2(k - 1)

F(neg, q) == [neg |-> neg, q |-> q]
FNeg(f) == [neg |-> ~f.neg, q |-> f.q]
\* f / 2.0, exact for the even numerators the model uses.
FHalf(f) == [neg |-> f.neg, q |-> f.q \div 2]

\* struct.pack("<f", f): IEEE-754 single, little-endian.
PackF(f) ==
    LET k == Log2(f.q)
        expo == IF f.q = 0 THEN 0 ELSE k - 2 + 127
        mant == IF f.q = 0 THEN 0 ELSE (f.q - Pow2(k)) * Pow2(23 - k)
        sign == IF f.neg THEN 128 ELSE 0
    IN  << mant % 256,
           (mant \div 256) % 256,
           (expo % 2) * 128 + (mant \div 65536),
           sign + (expo \div 2) >>

Pack3F(x, y, z) == PackF(x) \o PackF(y) \o PackF(z)

\* struct.pack("<I", v) for 0 <= v < 2^32.
PackU32(v) ==
    << v % 256, (v \div 256) % 256, (v \div 65536) % 256, (v \div 16777216) % 256 >>

\* read_u32(data, off).  Values of 2^30 and more are reported as 2^30: the
\* program only compares them with 0 and 1 and uses them as offsets, and
\* every buffer of the model is far shorter.
read_u32(d, off) ==
    IF At(d, off + 3) >= 64 THEN Pow2(30)
    ELSE At(d, off) + 256 * At(d, off + 1) + 65536 * At(d, off + 2)
         + 16777216 * At(d, off + 3)

\* write_u32(data, off, val) = struct.pack_into("<I", data, off, val).
\* pack_into raises struct.error without writing when the 4 bytes do not fit
\* in the buffer; when val is not a u32 it raises after clearing the 4 bytes.
write_u32(d, off, val) ==
    IF off + 4 > Len(d) THEN [d |-> d, err |-> "StructError"]
    ELSE IF val < 0 THEN
        [d |-> SliceAssign(d, off, off + 4, <<0, 0, 0, 0>>), err |-> "StructError"]
    ELSE [d |-> SliceAssign(d, off, off + 4, PackU32(val)), err |-> "ok"]

\* read_str(data, off): data[off:end].decode('ascii', errors='ignore'), where
\* end = data.find(b'\x00', off) and an end of -1 means "up to the last byte".
\* Bytes of 128 and more are dropped by the decoding.
read_str(d, off) ==
    LET end == Find(d, <<0>>, off)
        stop == IF end < 0 THEN Max(Len(d) - 1, 0) ELSE end
        IsAscii(c) == c < 128
    IN  SelectSeq(Slice(d, off, Max(off, stop)), IsAscii)

write_bytes(d, off, bts) == SliceAssign(d, off, off + Len(bts), bts)

\* The result of one call: the buffer afterwards, how the call ended, and
\* what it returned (off: the located offset, times: the timestamps,
\* dur: the hold duration, old: the previous texture string).
Result(d, res, off, times, dur, old) ==
    [d |-> d, res |-> res, off |-> off, times |-> times, dur |-> dur, old |-> old]

Raise(d, res) == Result(d, res, -1, <<>>, 0, <<>>)

(* ------------------------------------------------------------------ *)
(* resize_quad                                                        *)
(* ------------------------------------------------------------------ *)
FZero == F(FALSE, 0)

QuadPositions(half) ==
    << <<FNeg(half), FNeg(half), FZero>>, <<half, FNeg(half), FZero>>,
       <<FNeg(half), half, FZero>>, <<half, half, FZero>> >>

QuadPattern(orig_half) == Pack3F(FNeg(orig_half), FNeg(orig_half), FZero)

\* for i, pos in enumerate(positions): data[off:off+12] = pack("<3f", *pos)
RECURSIVE WriteQuad(_, _, _, _)
WriteQuad(d, idx, positions, i) ==
    IF i > Len(positions) THEN d
    ELSE LET off == idx + (i - 1) * M2_VERTEX_STRIDE
             pos == positions[i]
         IN  WriteQuad(SliceAssign(d, off, off + 12, Pack3F(pos[1], pos[2], pos[3])),
                       idx, positions, i + 1)

\* resize_quad without the idx < 0 check: a missing signature is patched at
\* the start of the buffer.
resize_quad_unchecked(d, diameter, orig_half) ==
    LET idx == Max(Find(d, QuadPattern(orig_half), 0), 0)
    IN  Result(WriteQuad(d, idx, QuadPositions(FHalf(diameter)), 1), "ok", idx, <<>>, 0, <<>>)

resize_quad(d, diameter, orig_half) ==
    LET idx == Find(d, QuadPattern(orig_half), 0)
        half == FHalf(diameter)
    IN  IF idx < 0 THEN Raise(d, "NotFound")
        ELSE Result(WriteQuad(d, idx, QuadPositions(half), 1), "ok", idx, <<>>, 0, <<>>)

(* ------------------------------------------------------------------ *)
(* patch_full_times / patch_incremental                               *)
(* ------------------------------------------------------------------ *)
\* for i, t in enumerate(times): write_u32(data, TIMING_ARRAY_OFF + 4*i, t)
RECURSIVE WriteTimes(_, _, _)
WriteTimes(w, times, i) ==
    IF w.err # "ok" \/ i > Len(times) THEN w
    ELSE WriteTimes(write_u32(w.d, TIMING_ARRAY_OFF + 4 * (i - 1), times[i]), times, i + 1)

\* The part both modes share after the timestamps are known: the timing
\* array is written, then the header pair is read and checked, then the
\* descriptor's start and end fields are written.
PatchTimes(d, times, dur) ==
    LET w == WriteTimes([d |-> d, err |-> "ok"], times, 1)
    IN  IF w.err # "ok" THEN Raise(w.d, w.err)
        ELSE IF Len(w.d) < SEQ_ARRAY_META_OFF + 8 THEN Raise(w.d, "StructError")
        ELSE LET cnt == read_u32(w.d, SEQ_ARRAY_META_OFF)
                 seq_ofs == read_u32(w.d, SEQ_ARRAY_META_OFF + 4)
             IN  IF cnt < 1 \/ seq_ofs = 0 THEN Raise(w.d, "NotFound")
                 ELSE LET s == write_u32(w.d, seq_ofs + 4, times[1])
                      IN  IF s.err # "ok" THEN Raise(s.d, s.err)
                          ELSE LET e == write_u32(s.d, seq_ofs + 8, times[Len(times)])
                               IN  IF e.err # "ok" THEN Raise(e.d, e.err)
                                   ELSE Result(e.d, "ok", seq_ofs, times, dur, <<>>)

\* patch_full_times with the length check made after the writes.
patch_full_times_late_check(d, times) ==
    LET r == IF times = <<>> THEN Raise(d, "ok")
             ELSE PatchTimes(d, times, 0)
    IN  IF Len(times) # 5 THEN Raise(r.d, "InvalidArgument") ELSE r

patch_full_times(d, times) ==
    IF Len(times) # 5 THEN Raise(d, "InvalidArgument")
    ELSE PatchTimes(d, times, times[4] - times[3])

\* patch_incremental with the hold phase ending at duration, not t2 + duration.
patch_incremental_no_epoch(d, fade_in, duration, fade_out) ==
    PatchTimes(d, <<0, fade_in, HOLD_EPOCH, duration, duration + fade_out>>, duration)

patch_incremental(d, fade_in, duration, fade_out) ==
    LET t0 == 0
        t1 == fade_in
        t2 == HOLD_EPOCH
        t3 == t2 + duration
        t4 == t3 + fade_out
    IN  PatchTimes(d, <<t0, t1, t2, t3, t4>>, duration)

(* ------------------------------------------------------------------ *)
(* patch_texture                                                      *)
(* ------------------------------------------------------------------ *)
\* str.upper() on one character (code points below 256 whose upper case is
\* again one character below 256).
Upper(c) ==
    IF c \in 97..122 THEN c - 32
    ELSE IF c \in 224..254 /\ c # 247 THEN c - 32
    ELSE c

UpperStr(s) == [i \in 1..Len(s) |-> Upper(s[i])]

\* f"SPELLS\\{tex_base.upper()}.BLP"
FullName(tex_base) ==
    <<83, 80, 69, 76, 76, 83, 92>> \o UpperStr(tex_base) \o <<46, 66, 76, 80>>

Zeros(n) == [i \in 1..n |-> 0]

\* The clearing loop running to the end of the buffer instead of to b.
ZeroRangeToEnd(d, a, b) ==
    IF a >= b THEN [d |-> d, err |-> "ok"]
    ELSE [d |-> SliceAssign(d, a, Len(d), Zeros(Max(Len(d) - a, 0))), err |-> "ok"]

\* for p in range(a, b): data[p] = 0
ZeroRange(d, a, b) ==
    IF a >= b THEN [d |-> d, err |-> "ok"]
    ELSE IF b <= Len(d) THEN [d |-> SliceAssign(d, a, b, Zeros(b - a)), err |-> "ok"]
    ELSE [d |-> SliceAssign(d, a, Len(d), Zeros(Max(Len(d) - a, 0))), err |-> "IndexError"]

patch_texture(d, tex_base) ==
    IF Len(tex_base) > MAX_TEX_BASE THEN Raise(d, "InvalidArgument")
    ELSE LET full == FullName(tex_base)
         IN  IF \E i \in 1..Len(full) : full[i] > 127 THEN Raise(d, "UnicodeError")
             ELSE LET new_bytes == full \o <<0>>
                      old == read_str(d, TEXTURE_NAME_OFF)
                      old_len == Len(old) + 1
                      w == write_bytes(d, TEXTURE_NAME_OFF, new_bytes)
                      z == ZeroRange(w, TEXTURE_NAME_OFF + Len(new_bytes),
                                     TEXTURE_NAME_OFF + old_len)
                 IN  IF z.err # "ok" THEN Raise(z.d, z.err)
                     ELSE Result(z.d, "ok", -1, <<>>, 0, old)

(* ------------------------------------------------------------------ *)
(* Input files and command lines                                      *)
(* ------------------------------------------------------------------ *)
\* 'SPELLS\DANGERAREABLUE.BLP\x00', the string the shipped model holds.
DangerAreaBlue ==
    <<83, 80, 69, 76, 76, 83, 92, 68, 65, 78, 71, 69, 82, 65, 82, 69, 65, 66, 76,
      85, 69, 46, 66, 76, 80, 0>>

Blank(n) == [i \in 1..n |-> Fill]

DefaultOrigHalf == F(FALSE, 50)

RECURSIVE PlaceQuads(_, _)
PlaceQuads(d, sigs) ==
    IF sigs = {} THEN d
    ELSE LET o == CHOOSE x \in sigs : \A y \in sigs : x <= y
         IN  PlaceQuads(SliceAssign(d, o, o + 12, QuadPattern(DefaultOrigHalf)), sigs \ {o})

\* A file: filler bytes, the texture string at TEXTURE_NAME_OFF, the header
\* pair (count, offset) at SEQ_ARRAY_META_OFF, and the quad signature at each
\* offset of sigs.
Layout(sigs, cnt, ofs, slot) == [sigs |-> sigs, cnt |-> cnt, ofs |-> ofs, slot |-> slot]

BuildFile(l) ==
    LET a == write_bytes(Blank(BufLen), TEXTURE_NAME_OFF, l.slot)
        b == write_u32(a, SEQ_ARRAY_META_OFF, l.cnt).d
        c == write_u32(b, SEQ_ARRAY_META_OFF + 4, l.ofs).d
    IN  PlaceQuads(c, l.sigs)

DefaultLayout == Layout({256}, 1, 64, DangerAreaBlue)

QuadVariants ==
    { {}, {256, 512}, {BufLen - 60}, {BufLen - 12},
      {TIMING_ARRAY_OFF - M2_VERTEX_STRIDE}, {TEXTURE_NAME_OFF - M2_VERTEX_STRIDE} }

HeaderVariants ==
    { <<0, 64>>, <<1, 0>>, <<2, 128>>, <<1, SEQ_ARRAY_META_OFF - 4>>,
      <<1, TIMING_ARRAY_OFF - 4>>, <<1, TEXTURE_NAME_OFF - 4>>,
      <<1, BufLen - 8>>, <<1, BufLen>> }

SlotVariants ==
    { <<65, 0>>,
      <<0>>,
      SubSeq(DangerAreaBlue, 1, 7) \o <<233, 233>> \o SubSeq(DangerAreaBlue, 8, 26),
      SubSeq(DangerAreaBlue, 1, 25) \o <<95>>,
      SubSeq(DangerAreaBlue, 1, 25) \o Blank(14) \o <<0>> }

Layouts ==
    {DefaultLayout}
    \cup {Layout(q, 1, 64, DangerAreaBlue) : q \in QuadVariants}
    \cup {Layout({256}, h[1], h[2], DangerAreaBlue) : h \in HeaderVariants}
    \cup {Layout({256}, 1, 64, t) : t \in SlotVariants}

\* The parsed command line.  times_full is the list given with --times-full
\* (mode "full"), otherwise the three durations are used; texture is the base
\* name given with -t, the empty string when the option is absent.
Args(diameter, mode, times_full, fade_in, duration, fade_out, texture) ==
    [diameter |-> diameter, orig_half |-> DefaultOrigHalf, mode |-> mode,
     times_full |-> times_full, fade_in |-> fade_in, duration |-> duration,
     fade_out |-> fade_out, texture |-> texture]

Fire == <<102, 105, 114, 101>>

DefaultArgs == Args(F(FALSE, 80), "incremental", <<>>, 500, 8000, 1000, Fire)

FullArgs(times) == Args(F(FALSE, 80), "full", times, 500, 8000, 1000, Fire)

TextureArgs(base) == Args(F(FALSE, 80), "incremental", <<>>, 500, 8000, 1000, base)

ArgsVariants ==
    { Args(F(FALSE, 100), "incremental", <<>>, 500, 8000, 1000, Fire),
      Args(F(FALSE, 2), "incremental", <<>>, 0, 0, 0, Fire),
      Args(F(FALSE, 80), "incremental", <<>>, -1, 8000, 1000, Fire),
      Args(F(FALSE, 80), "incremental", <<>>, 500, 8000, -9001, Fire) }
    \cup { FullArgs(t) : t \in { <<0, 500, 1000, 9000, 10000>>, <<1000, 1500, 1600, 1700, 2000>>,
                                 <<5, 4, 3, 2, 1>>, <<1, 2, -1, 4, 5>>,
                                 <<>>, <<7>>, <<1, 2, 3, 4>>, <<1, 2, 3, 4, 5, 6>> } }
    \cup { TextureArgs(b) : b \in { <<>>, <<70, 73, 82, 69, 66, 65, 76, 76>>,
                                    [i \in 1..MAX_TEX_BASE |-> 97],
                                    [i \in 1..(MAX_TEX_BASE + 1) |-> 97],
                                    <<102, 233>> } }

Scenarios ==
    (Layouts \X {DefaultArgs})
    \cup ({DefaultLayout} \X ArgsVariants)
    \cup ({Layout({256, 512}, 1, SEQ_ARRAY_META_OFF - 4, DangerAreaBlue)}
          \X {FullArgs(<<1000, 1500, 1600, 1700, 2000>>)})
    \cup ({Layout({BufLen - 12}, 1, 64, DangerAreaBlue)}
          \X {Args(F(FALSE, 100), "incremental", <<>>, 500, 8000, 1000, Fire)})

(* ------------------------------------------------------------------ *)
(* The operations, called one after another on one buffer             *)
(* ------------------------------------------------------------------ *)
NoFile == <<>>

Entry(op, r) ==
    [op |-> op, res |-> r.res, off |-> r.off, times |-> r.times, dur |-> r.dur,
     old |-> r.old]

Init ==
    \E sc \in Scenarios :
        /\ orig = BuildFile(sc[1])
        /\ data = orig
        /\ prev = orig
        /\ args = sc[2]
        /\ log = <<>>
        /\ pc = "call"
        /\ file = NoFile

Call(op, r) ==
    /\ pc = "call"
    /\ Len(log) < MaxCalls
    /\ data' = r.d
    /\ prev' = data
    /\ log' = Append(log, Entry(op, r))
    /\ UNCHANGED <<orig, args, pc, file>>

CallResizeQuad == Call("resize_quad", resize_quad(data, args.diameter, args.orig_half))

CallPatchFullTimes ==
    /\ args.mode = "full"
    /\ Call("patch_full_times", patch_full_times(data, args.times_full))

CallPatchIncremental ==
    /\ args.mode = "incremental"
    /\ Call("patch_incremental",
            patch_incremental(data, args.fade_in, args.duration, args.fade_out))

CallPatchTexture == Call("patch_texture", patch_texture(data, args.texture))

Next ==
    \/ CallResizeQuad
    \/ CallPatchFullTimes
    \/ CallPatchIncremental
    \/ CallPatchTexture

Spec == Init /\ [][Next]_vars

(* ------------------------------------------------------------------ *)
(* main(): load, resize_quad, one timing mode, optional texture, write *)
(* ------------------------------------------------------------------ *)
\* An exception that is caught and ignored: main carries on.
AfterCallSwallowed(res, nextpc) == nextpc

\* An exception raised by an operation is not caught: the process ends.
AfterCall(res, nextpc) == IF res = "ok" THEN nextpc ELSE "aborted"

InitMain ==
    \E sc \in Scenarios :
        /\ sc[2].mode = "full" => Len(sc[2].times_full) >= 1
        /\ orig = BuildFile(sc[1])
        /\ data = <<>>
        /\ prev = <<>>
        /\ args = sc[2]
        /\ log = <<>>
        /\ pc = "load"
        /\ file = NoFile

MainStep(at, op, r, nextpc) ==
    /\ pc = at
    /\ data' = r.d
    /\ prev' = data
    /\ log' = Append(log, Entry(op, r))
    /\ pc' = AfterCall(r.res, nextpc)
    /\ UNCHANGED <<orig, args, file>>

MainLoad ==
    /\ pc = "load"
    /\ data' = orig
    /\ prev' = orig
    /\ pc' = "quad"
    /\ UNCHANGED <<orig, args, log, file>>

MainResizeQuad ==
    MainStep("quad", "resize_quad", resize_quad(data, args.diameter, args.orig_half),
             "timing")

MainPatchFullTimes ==
    /\ args.mode = "full"
    /\ MainStep("timing", "patch_full_times", patch_full_times(data, args.times_full),
                "texture")

MainPatchIncremental ==
    /\ args.mode # "full"
    /\ MainStep("timing", "patch_incremental",
                patch_incremental(data, args.fade_in, args.duration, args.fade_out),
                "texture")

MainPatchTexture ==
    /\ args.texture # <<>>
    /\ MainStep("texture", "patch_texture", patch_texture(data, args.texture), "persist")

MainSkipTexture ==
    /\ pc = "texture"
    /\ args.texture = <<>>
    /\ pc' = "persist"
    /\ UNCHANGED <<data, orig, prev, log, args, file>>

MainPersist ==
    /\ pc = "persist"
    /\ file' = <<data>>
    /\ pc' = "done"
    /\ UNCHANGED <<data, orig, prev, log, args>>

NextMain ==
    \/ MainLoad
    \/ MainResizeQuad
    \/ MainPatchFullTimes
    \/ MainPatchIncremental
    \/ MainPatchTexture
    \/ MainSkipTexture
    \/ MainPersist

SpecMain == InitMain /\ [][NextMain]_vars

(* ------------------------------------------------------------------ *)
(* Properties                                                         *)
(* ------------------------------------------------------------------ *)
Called == Len(log) >= 1
Last == log[Len(log)]
TimingOps == {"patch_full_times", "patch_incremental"}

\* The little-endian u32 at off, -1 when it does not lie in the buffer or
\* does not fit the model's integers.
LE32(d, off) ==
    IF off < 0 \/ off + 4 > Len(d) THEN -1
    ELSE IF d[off + 4] >= 64 THEN -1
    ELSE d[off + 1] + 256 * d[off + 2] + 65536 * d[off + 3] + 16777216 * d[off + 4]

Signature == Pack3F(FNeg(args.orig_half), FNeg(args.orig_half), FZero)
SigAt(d, i) == i >= 0 /\ i + 12 <= Len(d) /\ \A k \in 1..12 : d[i + k] = Signature[k]
HasSig(d) == \E i \in 0..(Len(d) - 12) : SigAt(d, i)
FirstSig(d) == CHOOSE i \in 0..(Len(d) - 12) : SigAt(d, i) /\ \A j \in 0..(i - 1) : ~SigAt(d, j)

\* Byte ranges [lo, hi) as pairs.
Disjoint(r, t) == r[2] <= t[1] \/ t[2] <= r[1]
Within(r, d) == 0 <= r[1] /\ r[2] <= Len(d)
VertexRanges(idx) ==
    {<<idx + i * M2_VERTEX_STRIDE, idx + i * M2_VERTEX_STRIDE + 12>> : i \in 0..3}
HeaderRange == <<SEQ_ARRAY_META_OFF, SEQ_ARRAY_META_OFF + 8>>
TimingRange == <<TIMING_ARRAY_OFF, TIMING_ARRAY_OFF + 20>>
DescriptorRange(base) == <<base + 4, base + 12>>

ExpectedCorners ==
    LET h == args.diameter.q \div 2
    IN  << Pack3F(F(TRUE, h), F(TRUE, h), F(FALSE, 0)),
           Pack3F(F(FALSE, h), F(TRUE, h), F(FALSE, 0)),
           Pack3F(F(TRUE, h), F(FALSE, h), F(FALSE, 0)),
           Pack3F(F(FALSE, h), F(FALSE, h), F(FALSE, 0)) >>

\* C1: whenever resize_quad is called with a diameter > 0 on a buffer that
\* contains the signature, it succeeds and returns the first occurrence idx,
\* the 12 bytes at idx + i*48 (i = 0..3) encode the four corners
\* (-d/2,-d/2,0), (d/2,-d/2,0), (-d/2,d/2,0), (d/2,d/2,0), and the buffer's
\* length and every other byte are as before the call.
C1_ResizeExact ==
    (Called /\ Last.op = "resize_quad" /\ args.diameter.q > 0 /\ HasSig(prev)) =>
        LET idx == FirstSig(prev)
        IN  /\ Last.res = "ok"
            /\ Last.off = idx
            /\ Len(data) = Len(prev)
            /\ \A i \in 0..3 :
                  Slice(data, idx + i * 48, idx + i * 48 + 12) = ExpectedCorners[i + 1]
            /\ \A j \in 0..(Len(prev) - 1) :
                  (\A r \in VertexRanges(idx) : j < r[1] \/ j >= r[2])
                      => At(data, j) = At(prev, j)

\* C2: a timing call that fails has applied nothing: the timing array and the
\* descriptor fields (the whole buffer) are as before the call.
C2_TimingAtomic ==
    (Called /\ Last.op \in TimingOps /\ Last.res # "ok") => data = prev

ExpectedTimes ==
    IF args.mode = "full" THEN args.times_full
    ELSE <<0, args.fade_in, 1000, 1000 + args.duration,
           1000 + args.duration + args.fade_out>>

TimingMirrors ==
    /\ (args.mode = "full"
        \/ (args.fade_in >= 0 /\ args.duration >= 0 /\ args.fade_out >= 0))
           => Last.times = ExpectedTimes
    /\ Len(Last.times) = 5
    /\ \A i \in 0..4 : LE32(data, TIMING_ARRAY_OFF + 4 * i) = Last.times[i + 1]
    /\ LET base == LE32(data, SEQ_ARRAY_META_OFF + 4)
       IN  /\ LE32(data, base + 4) = Last.times[1]
           /\ LE32(data, base + 8) = Last.times[5]

\* C3 as stated: after every successful timing call, for every descriptor
\* offset, the timing array holds the returned timestamps (the derived or the
\* supplied ones) and the descriptor found through the header has start = t0
\* and end = t4.
C3_MirrorAnyOffset ==
    (Called /\ Last.op \in TimingOps /\ Last.res = "ok") => TimingMirrors

DescriptorApart(d) ==
    LET base == LE32(d, SEQ_ARRAY_META_OFF + 4)
    IN  /\ Disjoint(DescriptorRange(base), TimingRange)
        /\ Disjoint(DescriptorRange(base), HeaderRange)

\* C3 amended: after every successful timing call whose descriptor fields
\* (base+4 .. base+11) overlap neither the timing array nor the header pair,
\* the timing array holds the returned timestamps (the derived or the supplied
\* ones) and the descriptor found through the header has start = t0, end = t4.
C3_MirrorWhenApart ==
    (Called /\ Last.op \in TimingOps /\ Last.res = "ok" /\ DescriptorApart(prev))
        => TimingMirrors

C3_Witness ==
    /\ Called /\ Last.op = "patch_incremental" /\ Last.res = "ok"
    /\ DescriptorApart(prev)
    /\ Last.times = <<0, 500, 1000, 9000, 10000>>
    /\ LE32(data, Last.off + 8) = 10000
    /\ data # prev

\* The end of the previous string's extent: one past its terminator (the end
\* of the buffer when there is no terminator).
PrevTerminator(d) == Find(d, <<0>>, TEXTURE_NAME_OFF)
PrevExtentEnd(d) == IF PrevTerminator(d) < 0 THEN Len(d) ELSE PrevTerminator(d) + 1

\* C4: after a successful patch_texture the buffer has the length it had, and
\* no byte outside [0xA90, end of the previous string's terminator) differs.
C4_TextureStaysInSlot ==
    (Called /\ Last.op = "patch_texture" /\ Last.res = "ok") =>
        /\ Len(data) = Len(prev)
        /\ Slice(data, 0, TEXTURE_NAME_OFF) = Slice(prev, 0, TEXTURE_NAME_OFF)
        /\ Slice(data, PrevExtentEnd(prev), Len(data))
             = Slice(prev, PrevExtentEnd(prev), Len(prev))

AsciiBase == \A i \in 1..Len(args.texture) : args.texture[i] < 128

\* C5: patch_texture with an (ASCII) base name of at most 20 characters leaves
\* 'SPELLS\' + uppercase(base) + '.BLP' + NUL at 0xA90 and zeros from there up
\* to and including the previous terminator's position; with a longer base
\* name it fails with InvalidArgument and writes nothing.
C5_TextureSlotContent ==
    (Called /\ Last.op = "patch_texture" /\ AsciiBase) =>
        IF Len(args.texture) > 20
        THEN Last.res = "InvalidArgument" /\ data = prev
        ELSE LET n == 7 + Len(args.texture) + 4 + 1
             IN  /\ Last.res = "ok"
                 /\ Slice(data, TEXTURE_NAME_OFF, TEXTURE_NAME_OFF + n)
                      = FullName(args.texture) \o <<0>>
                 /\ \A p \in (TEXTURE_NAME_OFF + n)..PrevTerminator(prev) :
                      At(data, p) = 0

\* C6: when resize_quad or a timing call succeeds and the same call is made
\* again with the same parameters, the second call leaves the buffer as the
\* first left it.
C6_Idempotent ==
    (/\ Len(log) >= 2
     /\ Last.op = log[Len(log) - 1].op
     /\ Last.op \in TimingOps \cup {"resize_quad"}
     /\ log[Len(log) - 1].res = "ok") => data = prev

\* C7: resize_quad on a buffer that holds the signature nowhere fails with
\* NotFound and leaves the buffer as it was.
C7_NoSignature ==
    (Called /\ Last.op = "resize_quad" /\ ~HasSig(prev)) =>
        Last.res = "NotFound" /\ data = prev

C7_Witness ==
    Called /\ Last.op = "resize_quad" /\ ~HasSig(prev) /\ Last.res = "NotFound"

\* C8: patch_full_times with a list of any length other than 5 fails with
\* InvalidArgument and leaves the buffer as it was.
C8_WrongCount ==
    (Called /\ Last.op = "patch_full_times" /\ Len(args.times_full) # 5) =>
        Last.res = "InvalidArgument" /\ data = prev

C8_Witness ==
    /\ Called /\ Last.op = "patch_full_times"
    /\ Len(args.times_full) = 4
    /\ Last.res = "InvalidArgument"

TimingOp == IF args.mode = "full" THEN "patch_full_times" ELSE "patch_incremental"

\* C9: main calls the operations in the order resize_quad, one timing mode,
\* patch_texture (when a texture is given); no operation runs after one has
\* failed; and the file is written only after every operation of the run has
\* succeeded, holding the fully patched buffer.
C9_MainOrder ==
    LET expected == <<"resize_quad", TimingOp>>
                    \o (IF args.texture # <<>> THEN <<"patch_texture">> ELSE <<>>)
    IN  /\ Len(log) <= Len(expected)
        /\ \A i \in 1..Len(log) : log[i].op = expected[i]
        /\ \A i \in 1..(Len(log) - 1) : log[i].res = "ok"
        /\ pc = "load" => log = <<>>
        /\ (Called /\ Last.res # "ok") => pc = "aborted"
        /\ pc = "aborted" => file = NoFile
        /\ file # NoFile =>
              /\ pc = "done"
              /\ Len(log) = Len(expected)
              /\ \A i \in 1..Len(log) : log[i].res = "ok"
              /\ file = <<data>>

C9_Witness ==
    /\ pc = "aborted"
    /\ Len(log) = 2
    /\ log[1].res = "ok"
    /\ data # orig
    /\ file = NoFile

ApplyTiming(d) ==
    IF args.mode = "full" THEN patch_full_times(d, args.times_full)
    ELSE patch_incremental(d, args.fade_in, args.duration, args.fade_out)

\* The three operations in the order of main, from the loaded buffer.
CanonQuad == resize_quad(orig, args.diameter, args.orig_half)
CanonTiming == ApplyTiming(CanonQuad.d)
CanonTexture == patch_texture(CanonTiming.d, args.texture)
CanonOk == CanonQuad.res = "ok" /\ CanonTiming.res = "ok" /\ CanonTexture.res = "ok"

IsPermutation ==
    /\ Len(log) = 3
    /\ {log[i].op : i \in 1..3} = {"resize_quad", TimingOp, "patch_texture"}

SameAsCanon == data = CanonTexture.d /\ \A i \in 1..3 : log[i].res = "ok"

\* C10 as stated: for every buffer on which the three operations succeed in
\* the order quad, timing, texture, every order of the three gives the same
\* final buffer and the same outcomes.
C10_AnyOrder == (IsPermutation /\ CanonOk) => SameAsCanon

\* The byte ranges of the three operations in buffer d: the four vertex
\* positions at the first signature; the header pair, the timing array and
\* the descriptor fields; the texture slot from 0xA90 to the later of the new
\* and the previous terminator.  They lie in the buffer, the ranges of
\* different operations are disjoint, and neither the timing nor the texture
\* write moves the first occurrence of the signature.
RangesApart(d) ==
    /\ HasSig(d)
    /\ PrevTerminator(d) >= 0
    /\ LE32(d, SEQ_ARRAY_META_OFF + 4) >= 0
    /\ LET idx == FirstSig(d)
           quad == VertexRanges(idx)
           timing == {HeaderRange, TimingRange,
                      DescriptorRange(LE32(d, SEQ_ARRAY_META_OFF + 4))}
           texture == {<<TEXTURE_NAME_OFF,
                         Max(TEXTURE_NAME_OFF + Len(args.texture) + 12,
                             PrevTerminator(d) + 1)>>}
       IN  /\ \A r \in quad \cup timing \cup texture : Within(r, d)
           /\ \A r \in quad : \A t \in timing \cup texture : Disjoint(r, t)
           /\ \A r \in timing : \A t \in texture : Disjoint(r, t)
           /\ \A e \in {ApplyTiming(d).d, patch_texture(d, args.texture).d,
                        patch_texture(ApplyTiming(d).d, args.texture).d} :
                  HasSig(e) /\ FirstSig(e) = idx

\* C10 amended: for every buffer on which the three operations succeed in the
\* order quad, timing, texture, and in which their byte ranges lie in the
\* buffer, do not overlap and the signature's first occurrence is not moved by
\* the timing or texture write, every order of the three gives the same final
\* buffer and the same outcomes.
C10_AnyOrderWhenApart == (IsPermutation /\ CanonOk /\ RangesApart(orig)) => SameAsCanon

C10_Witness ==
    /\ IsPermutation /\ CanonOk /\ RangesApart(orig)
    /\ log[1].op = "patch_texture" /\ log[2].op = TimingOp /\ log[3].op = "resize_quad"
    /\ data = CanonTexture.d
    /\ data # orig

====
